---- MODULE Spec2Model ----
(***************************************************************************)
(* Model of src/task_data.py and src/questionnaire.py: the text cleaner    *)
(* _clean_text and the two variants of filter_csv_columns.                 *)
(*                                                                         *)
(* A text is a sequence of characters; a character is a one-element        *)
(* string, except for the named characters                                 *)
(*   "NUL" U+0000 (a control character, not printable),                     *)
(*   "SOL" U+0338 COMBINING LONG SOLIDUS OVERLAY,                           *)
(*   "NLT" U+226E NOT LESS-THAN, "NGT" U+226F NOT GREATER-THAN.             *)
(* Python indices are 0-based; At(s, i) reads s[i].                        *)
(***************************************************************************)
EXTENDS Integers, Sequences, FiniteSets, TLC

VARIABLES
    variant,     \* which source file's filter_csv_columns is running
    columns,     \* argument `columns`
    inFile,      \* the input path: "missing", "empty" (a file of no rows)
                 \* or "rows" (a file of at least one row)
    outPath,     \* the output path: "ok", "nodir" (its directory is missing)
                 \* or "denied" (it cannot be opened for another reason)
    pc,          \* position in filter_csv_columns
    infile,      \* input handle: "unopened", "open", "closed"
    outfile,     \* output handle: "unopened", "open", "closed"
    outDisk,     \* the output file on disk: Absent, or the rows it holds
    header,      \* local `header` (the name of the row)
    rows,        \* local `rows` of task_data (the names of the rows)
    keep,        \* local `keep`, as 0-based positions in `rows`
    i,           \* local `i` of the sampling loop
    wi,          \* position of the write loop in `keep`
    msgs,        \* what the call printed, in order
    consumed,    \* the rows the csv reader has yielded so far, in file order
    text,        \* _clean_text: local `text` / `normalized`
    cpc          \* position in _clean_text

vars == <<variant, columns, inFile, outPath, pc, infile, outfile, outDisk,
          header, rows, keep, i, wi, msgs, consumed, text, cpc>>

filterVars == <<variant, columns, inFile, outPath, pc, infile, outfile,
                outDisk, header, rows, keep, i, wi, msgs, consumed>>

cleanVars == <<text, cpc>>

----------------------------------------------------------------------------
(* Sequences *)

At(s, k) == s[k + 1]

\* s[a:b] of Python, 0-based, b exclusive
Slice(s, a, b) == IF b <= a THEN <<>> ELSE SubSeq(s, a + 1, b)

RECURSIVE Flatten(_)
Flatten(ss) == IF ss = <<>> THEN <<>> ELSE Head(ss) \o Flatten(Tail(ss))

----------------------------------------------------------------------------
(* _clean_text *)

\* re.IGNORECASE on the letters of the model's alphabet
Fold(c) == IF c = "B" THEN "b" ELSE c

\* \s
IsSpace(c) == c \in {" ", "\t", "\n", "\r"}

\* the position after a greedy \s* started at p
RECURSIVE SkipSpace(_, _)
SkipSpace(t, p) ==
    IF p < Len(t) /\ IsSpace(At(t, p)) THEN SkipSpace(t, p + 1) ELSE p

\* the literal `name` matches t at p, ignoring case
NameAt(t, p, name) ==
    /\ p + Len(name) <= Len(t)
    /\ \A k \in 0..(Len(name) - 1) : Fold(At(t, p + k)) = name[k + 1]

\* <\s*(?:n1|n2)\s*> at p: the position after the match, or -1
OpenEnd(t, p, names) ==
    IF p < Len(t) /\ At(t, p) = "<"
    THEN LET q == SkipSpace(t, p + 1)
             ok == {n \in names :
                       /\ NameAt(t, q, n)
                       /\ LET r == SkipSpace(t, q + Len(n))
                          IN  r < Len(t) /\ At(t, r) = ">"}
         IN  IF ok = {} THEN -1
             ELSE LET n == CHOOSE n \in ok : TRUE
                  IN  SkipSpace(t, q + Len(n)) + 1
    ELSE -1

\* <\s*/\s*(?:n1|n2)\s*> at p: the position after the match, or -1
CloseEnd(t, p, names) ==
    IF p < Len(t) /\ At(t, p) = "<"
    THEN LET s == SkipSpace(t, p + 1)
         IN  IF s < Len(t) /\ At(t, s) = "/"
             THEN LET q == SkipSpace(t, s + 1)
                      ok == {n \in names :
                                /\ NameAt(t, q, n)
                                /\ LET r == SkipSpace(t, q + Len(n))
                                   IN  r < Len(t) /\ At(t, r) = ">"}
                  IN  IF ok = {} THEN -1
                      ELSE LET n == CHOOSE n \in ok : TRUE
                           IN  SkipSpace(t, q + Len(n)) + 1
             ELSE -1
    ELSE -1

\* (.*?) followed by the closing tag, from e: the least q >= e where the closing
\* tag matches and t[e:q] holds no newline ('.' does not match it), or -1
RECURSIVE LazyClose(_, _, _)
LazyClose(t, q, names) ==
    IF q >= Len(t) THEN -1
    ELSE IF CloseEnd(t, q, names) >= 0 THEN q
    ELSE IF At(t, q) = "\n" THEN -1
    ELSE LazyClose(t, q + 1, names)

\* re.sub(r'<\s*(?:names)\s*>(.*?)<\s*/\s*(?:names)\s*>', mark \1 mark, t) from p
RECURSIVE SubTagFrom(_, _, _, _)
SubTagFrom(t, p, names, mark) ==
    IF p >= Len(t) THEN <<>>
    ELSE LET e == OpenEnd(t, p, names)
             q == IF e >= 0 THEN LazyClose(t, e, names) ELSE -1
         IN  IF q >= 0
             THEN mark \o Slice(t, e, q) \o mark
                    \o SubTagFrom(t, CloseEnd(t, q, names), names, mark)
             ELSE <<At(t, p)>> \o SubTagFrom(t, p + 1, names, mark)

SubTag(t, names, mark) == SubTagFrom(t, 0, names, mark)

BoldNames == {<<"b">>, <<"s", "t", "r", "o", "n", "g">>}
ItalicNames == {<<"i">>, <<"e", "m">>}
UnderlineNames == {<<"u">>}

\* the position of the first ">" at or after p, or -1
RECURSIVE FirstGt(_, _)
FirstGt(t, p) ==
    IF p >= Len(t) THEN -1
    ELSE IF At(t, p) = ">" THEN p
    ELSE FirstGt(t, p + 1)

\* <[^>]+> at p: the position after the match, or -1
TagEnd(t, p) ==
    IF p + 1 < Len(t) /\ At(t, p) = "<" /\ At(t, p + 1) # ">"
    THEN LET g == FirstGt(t, p + 1) IN IF g >= 0 THEN g + 1 ELSE -1
    ELSE -1

\* re.sub(r'<[^>]+>', '', t) from p
RECURSIVE StripTagsFrom(_, _)
StripTagsFrom(t, p) ==
    IF p >= Len(t) THEN <<>>
    ELSE IF TagEnd(t, p) >= 0 THEN StripTagsFrom(t, TagEnd(t, p))
    ELSE <<At(t, p)>> \o StripTagsFrom(t, p + 1)

StripTags(t) == StripTagsFrom(t, 0)

\* unicodedata.normalize('NFC', t) on the model's alphabet: the only canonical
\* compositions are "<" + U+0338 -> U+226E and ">" + U+0338 -> U+226F
RECURSIVE NFC(_)
NFC(t) ==
    IF Len(t) = 0 THEN <<>>
    ELSE IF Len(t) >= 2 /\ t[1] = "<" /\ t[2] = "SOL"
         THEN <<"NLT">> \o NFC(Slice(t, 2, Len(t)))
    ELSE IF Len(t) >= 2 /\ t[1] = ">" /\ t[2] = "SOL"
         THEN <<"NGT">> \o NFC(Slice(t, 2, Len(t)))
    ELSE <<t[1]>> \o NFC(Tail(t))

\* ch.isprintable() on the model's alphabet
IsPrintable(c) == c \notin {"NUL", "\t", "\n", "\r"}

\* ''.join(ch for ch in t if ch.isprintable() or ch in '\t\n\r')
StripControl(t) ==
    SelectSeq(t, LAMBDA c : IsPrintable(c) \/ c \in {"\t", "\n", "\r"})

CleanText(value) ==
    LET t1 == SubTag(value, BoldNames, <<"*", "*">>)
        t2 == SubTag(t1, ItalicNames, <<"*">>)
        t3 == SubTag(t2, UnderlineNames, <<"_">>)
        t4 == StripTags(t3)
    IN  StripControl(NFC(t4))

----------------------------------------------------------------------------
(* _clean_text as a sequence of steps *)

MaxTokens == 4

\* the pieces the input texts are built from
Tokens ==
    { <<"<">>, <<">">>, <<"x">>, <<"SOL">>, <<"NUL">>, <<"\n">>,
      <<"<", " ", "B", ">">>, <<"<", "/", "s", "t", "r", "o", "n", "g", ">">>,
      <<"<", "i", ">">>, <<"<", "/", " ", "e", "m", ">">>,
      <<"<", "u", ">">>, <<"<", "/", "u", ">">> }

\* the texts made of at most n pieces
TextsOf(n) ==
    { Flatten(ts) : ts \in UNION { [1..m -> Tokens] : m \in 0..n } }

CleanIdle == text = <<>> /\ cpc = "idle"

InitClean ==
    /\ text \in TextsOf(MaxTokens)
    /\ cpc = "start"

\* line 25
SubBold ==
    /\ cpc = "start"
    /\ text' = SubTag(text, BoldNames, <<"*", "*">>)
    /\ cpc' = "bold"

\* line 27
SubItalic ==
    /\ cpc = "bold"
    /\ text' = SubTag(text, ItalicNames, <<"*">>)
    /\ cpc' = "italic"

\* line 29
SubUnderline ==
    /\ cpc = "italic"
    /\ text' = SubTag(text, UnderlineNames, <<"_">>)
    /\ cpc' = "underline"

\* line 31
RemoveTags ==
    /\ cpc = "underline"
    /\ text' = StripTags(text)
    /\ cpc' = "stripped"

\* line 33
Normalize ==
    /\ cpc = "stripped"
    /\ text' = NFC(text)
    /\ cpc' = "normalized"

\* line 35
ReturnClean ==
    /\ cpc = "normalized"
    /\ text' = StripControl(text)
    /\ cpc' = "done"

----------------------------------------------------------------------------
(* Rows, tables and the arguments of filter_csv_columns *)

KeyCol == 51
RunMin == 5
FourthOffset == 3

MaxRows == 10
MaxBlocks == 2
MaxStream == 3

Pad == <<"x">>

\* a row of n cells: cell 0 is c0, the cell of the key column (if any) is key
MkRow(n, c0, key) ==
    [k \in 1..n |-> IF k = 1 THEN c0 ELSE IF k = KeyCol + 1 THEN key ELSE Pad]

Row3 == MkRow(KeyCol + 1, <<"<", "b", ">", "x", "<", "/", "b", ">">>, <<"3">>)
Row37 == MkRow(KeyCol + 2, <<"7">>, <<"3", "7">>)
RowMixed == MkRow(KeyCol + 1, <<"NUL", "x">>, <<"3", "x">>)
RowEmptyKey == MkRow(KeyCol + 1, Pad, <<>>)
RowShort == << <<"3">>, Pad >>

\* The state holds a row by its name; Cells gives the cells of the row.
DataRows == {"Row3", "Row37", "RowMixed", "RowEmptyKey", "RowShort"}

HeaderKeyed == MkRow(KeyCol + 1, <<"<", "i", ">", "h">>, <<"3">>)
HeaderShort == << <<"h">> >>

Headers == {"HeaderKeyed", "HeaderShort"}

RowCells ==
    [ r \in DataRows \cup Headers |->
        CASE r = "Row3" -> Row3
          [] r = "Row37" -> Row37
          [] r = "RowMixed" -> RowMixed
          [] r = "RowEmptyKey" -> RowEmptyKey
          [] r = "RowShort" -> RowShort
          [] r = "HeaderKeyed" -> HeaderKeyed
          [] r = "HeaderShort" -> HeaderShort ]

Cells(r) == RowCells[r]

RECURSIVE Repeat(_, _)
Repeat(r, n) == IF n = 0 THEN <<>> ELSE <<r>> \o Repeat(r, n - 1)

\* the lengths of the blocks: around the threshold RunMin and the offset
\* FourthOffset; longer runs come from adjacent blocks of the same row
BlockLengths == {1, 2, 4, 5, 6}

\* the tables of at most nb blocks of equal rows and at most nr rows in all
RECURSIVE BlockTables(_, _)
BlockTables(nb, nr) ==
    IF nb = 0 \/ nr = 0 THEN { <<>> }
    ELSE { <<>> } \cup
         UNION { { Repeat(r, n) \o t : r \in DataRows, t \in BlockTables(nb - 1, nr - n) } :
                   n \in { m \in BlockLengths : m <= nr } }

\* the data rows of the input files
DataTables == BlockTables(MaxBlocks, MaxRows)

ColumnLists == { <<51, 0, 51>>, <<52, -1, 0>> }

Absent == "absent"
OldContent == << << <<"o">> >> >>

----------------------------------------------------------------------------
(* filter_csv_columns *)

\* Project with an index out of range padded by an empty cell
RECURSIVE ProjectPadded(_, _)
ProjectPadded(row, cols) ==
    IF cols = <<>> THEN <<>>
    ELSE (IF 0 <= Head(cols) /\ Head(cols) < Len(row)
          THEN <<At(row, Head(cols))>> ELSE << <<>> >>) \o ProjectPadded(row, Tail(cols))

\* [row[i] for i in columns if 0 <= i < len(row)]
RECURSIVE Project(_, _)
Project(row, cols) ==
    IF cols = <<>> THEN <<>>
    ELSE (IF 0 <= Head(cols) /\ Head(cols) < Len(row)
          THEN <<At(row, Head(cols))>> ELSE <<>>) \o Project(row, Tail(cols))

\* [_clean_text(cell) for cell in filtered_row]
CleanRow(row) == [k \in DOMAIN row |-> CleanText(row[k])]

\* str.isdigit on the model's alphabet
IsDigitChar(c) == c \in {"0", "1", "2", "3", "4", "5", "6", "7", "8", "9"}
\* IsDigit without the test for the empty string
IsDigitOrEmpty(s) == \A k \in DOMAIN s : IsDigitChar(s[k])

IsDigit(s) == Len(s) > 0 /\ \A k \in DOMAIN s : IsDigitChar(s[k])

\* rows[i][51] if len(rows[i]) > 51 else ''
AzVal(row) == IF Len(row) > KeyCol THEN At(row, KeyCol) ELSE <<>>

\* the inner while loop: the first j >= i that does not continue the run
RECURSIVE RunEnd(_, _, _)
RunEnd(rs, j, num) ==
    IF j < Len(rs) /\ Len(Cells(At(rs, j))) > KeyCol
                   /\ At(Cells(At(rs, j)), KeyCol) = num
    THEN RunEnd(rs, j + 1, num)
    ELSE j

\* KeepOfRun with the threshold test off by one
KeepOfRunStrict(a, j) ==
    IF j - a > RunMin
    THEN <<a>> \o (IF a + FourthOffset < j THEN <<a + FourthOffset>> ELSE <<>>)
    ELSE <<>>

\* KeepOfRun appending the fourth row before the first
KeepOfRunReversed(a, j) ==
    IF j - a >= RunMin
    THEN (IF a + FourthOffset < j THEN <<a + FourthOffset>> ELSE <<>>) \o <<a>>
    ELSE <<>>

\* what one iteration of the outer while loop appends to keep
KeepOfRun(a, j) ==
    IF j - a >= RunMin
    THEN <<a>> \o (IF a + FourthOffset < j THEN <<a + FourthOffset>> ELSE <<>>)
    ELSE <<>>

\* ListReader on a reader that still holds the header
ListReaderWithHeader(h, rest) == <<h>> \o rest

\* rows = list(reader), after the header was read
ListReader(h, rest) == rest

args == <<variant, columns, inFile, outPath>>

InitFilter ==
    /\ variant \in {"task_data", "questionnaire"}
    /\ columns \in ColumnLists
    /\ inFile \in {"missing", "empty", "rows"}
    /\ outPath \in {"ok", "nodir", "denied"}
    /\ outDisk \in (IF outPath = "nodir" THEN {Absent} ELSE {Absent, OldContent})
    /\ pc = "start"
    /\ infile = "unopened"
    /\ outfile = "unopened"
    /\ header = "unread"
    /\ rows = <<>>
    /\ keep = <<>>
    /\ i = 0
    /\ wi = 0
    /\ msgs = <<>>
    /\ consumed = <<>>

FilterIdle ==
    /\ variant = "none"
    /\ columns = <<>>
    /\ inFile = "missing"
    /\ outPath = "ok"
    /\ outDisk = Absent
    /\ pc = "idle"
    /\ infile = "unopened"
    /\ outfile = "unopened"
    /\ header = "unread"
    /\ rows = <<>>
    /\ keep = <<>>
    /\ i = 0
    /\ wi = 0
    /\ msgs = <<>>
    /\ consumed = <<>>

\* CloseAll that leaves the input open
CloseOutOnly(inf, outf) ==
    /\ infile' = inf
    /\ outfile' = (IF outf = "open" THEN "closed" ELSE outf)

\* leaving the with block, normally or not, closes what it opened
CloseAll(inf, outf) ==
    /\ infile' = (IF inf = "open" THEN "closed" ELSE inf)
    /\ outfile' = (IF outf = "open" THEN "closed" ELSE outf)

\* OpenIn with the output opened (created, truncated) before the input
OpenInAfterOut ==
    /\ pc = "start"
    /\ IF inFile # "missing"
       THEN /\ infile' = "open"
            /\ outDisk' = outDisk
            /\ pc' = "open_out"
       ELSE /\ infile' = infile
            /\ outDisk' = (IF outPath = "ok" THEN <<>> ELSE outDisk)
            /\ pc' = "except_fnf"
    /\ UNCHANGED <<args, outfile, header, rows, keep, i, wi, msgs, consumed, cleanVars>>

\* line 53: open(input_file, 'r')
OpenIn ==
    /\ pc = "start"
    /\ IF inFile # "missing"
       THEN /\ infile' = "open"
            /\ pc' = "open_out"
       ELSE /\ infile' = infile
            /\ pc' = "except_fnf"
    /\ UNCHANGED <<args, outfile, outDisk, header, rows, keep, i, wi, msgs,
                   consumed, cleanVars>>

\* line 54: open(output_file, 'w') creates or truncates the file; when it raises,
\* the with statement closes the input on the way to the handler
OpenOut ==
    /\ pc = "open_out"
    /\ IF outPath = "ok"
       THEN /\ outfile' = "open"
            /\ infile' = infile
            /\ outDisk' = <<>>
            /\ pc' = "read_header"
       ELSE /\ CloseAll(infile, outfile)
            /\ outDisk' = outDisk
            /\ pc' = (IF outPath = "nodir" THEN "except_fnf" ELSE "except_other")
    /\ UNCHANGED <<args, header, rows, keep, i, wi, msgs, consumed, cleanVars>>

\* lines 60-61: header = next(reader)
ReadHeader ==
    /\ pc = "read_header"
    /\ inFile = "rows"
    /\ \E h \in Headers :
         /\ header' = h
         /\ consumed' = <<h>>
    /\ pc' = "write_header"
    /\ UNCHANGED <<args, infile, outfile, outDisk, rows, keep, i, wi, msgs, cleanVars>>

\* lines 62-65: the input has no row: report it and return
ReadHeaderEmpty ==
    /\ pc = "read_header"
    /\ inFile = "empty"
    /\ msgs' = Append(msgs, "empty")
    /\ CloseAll(infile, outfile)
    /\ pc' = "done"
    /\ UNCHANGED <<args, outDisk, header, rows, keep, i, wi, consumed, cleanVars>>

\* lines 67-68
WriteHeader ==
    /\ pc = "write_header"
    /\ outDisk' = Append(outDisk, Project(Cells(header), columns))
    /\ pc' = (IF variant = "task_data" THEN "read_rows" ELSE "stream")
    /\ UNCHANGED <<args, infile, outfile, header, rows, keep, i, wi, msgs,
                   consumed, cleanVars>>

\* task_data.py lines 71-73
ReadRows ==
    /\ pc = "read_rows"
    /\ \E t \in DataTables :
         /\ rows' = ListReader(header, t)
         /\ consumed' = consumed \o t
    /\ keep' = <<>>
    /\ i' = 0
    /\ pc' = "scan"
    /\ UNCHANGED <<args, infile, outfile, outDisk, header, wi, msgs, cleanVars>>

\* task_data.py lines 77-90: one iteration of the outer loop, on a digit key
ScanRun ==
    /\ pc = "scan"
    /\ i < Len(rows)
    /\ IsDigit(AzVal(Cells(At(rows, i))))
    /\ LET j == RunEnd(rows, i, AzVal(Cells(At(rows, i))))
       IN  /\ keep' = keep \o KeepOfRun(i, j)
           /\ i' = j
    /\ UNCHANGED <<args, pc, infile, outfile, outDisk, header, rows, wi, msgs,
                   consumed, cleanVars>>

\* task_data.py lines 91-93: one iteration of the outer loop, on any other key
ScanDrop ==
    /\ pc = "scan"
    /\ i < Len(rows)
    /\ ~IsDigit(AzVal(Cells(At(rows, i))))
    /\ i' = i + 1
    /\ UNCHANGED <<args, pc, infile, outfile, outDisk, header, rows, keep, wi, msgs,
                   consumed, cleanVars>>

\* task_data.py line 74: the outer loop ends
ScanEnd ==
    /\ pc = "scan"
    /\ i >= Len(rows)
    /\ wi' = 0
    /\ pc' = "write_rows"
    /\ UNCHANGED <<args, infile, outfile, outDisk, header, rows, keep, i, msgs,
                   consumed, cleanVars>>

\* task_data.py lines 96-99: one iteration of the write loop
WriteKept ==
    /\ pc = "write_rows"
    /\ wi < Len(keep)
    /\ outDisk' = Append(outDisk, CleanRow(Project(Cells(At(rows, At(keep, wi))), columns)))
    /\ wi' = wi + 1
    /\ UNCHANGED <<args, pc, infile, outfile, header, rows, keep, i, msgs,
                   consumed, cleanVars>>

\* questionnaire.py lines 70-74: one iteration of the loop over the reader
StreamRow ==
    /\ pc = "stream"
    /\ i < MaxStream
    /\ \E r \in DataRows :
         /\ consumed' = Append(consumed, r)
         /\ outDisk' = Append(outDisk, CleanRow(Project(Cells(r), columns)))
    /\ i' = i + 1
    /\ UNCHANGED <<args, pc, infile, outfile, header, rows, keep, wi, msgs, cleanVars>>

\* the with block ends: both files are closed
ExitWith ==
    /\ \/ pc = "write_rows" /\ wi >= Len(keep)
       \/ pc = "stream"
    /\ CloseAll(infile, outfile)
    /\ pc' = "print_ok"
    /\ UNCHANGED <<args, outDisk, header, rows, keep, i, wi, msgs, consumed, cleanVars>>

\* reading a row or writing one raises (decoding, csv or OS error): the with
\* block is left through the exception
RaiseIO ==
    /\ pc \in {"read_header", "write_header", "read_rows", "write_rows", "stream"}
    /\ CloseAll(infile, outfile)
    /\ pc' = "except_other"
    /\ UNCHANGED <<args, outDisk, header, rows, keep, i, wi, msgs, consumed, cleanVars>>

\* task_data.py line 101, questionnaire.py line 76
PrintOk ==
    /\ pc = "print_ok"
    /\ msgs' = Append(msgs, "success")
    /\ pc' = "done"
    /\ UNCHANGED <<args, infile, outfile, outDisk, header, rows, keep, i, wi,
                   consumed, cleanVars>>

\* except FileNotFoundError: the message names input_file
ExceptNotFound ==
    /\ pc = "except_fnf"
    /\ msgs' = Append(msgs, "input_not_found")
    /\ pc' = "done"
    /\ UNCHANGED <<args, infile, outfile, outDisk, header, rows, keep, i, wi,
                   consumed, cleanVars>>

\* except Exception as e
ExceptOther ==
    /\ pc = "except_other"
    /\ msgs' = Append(msgs, "error")
    /\ pc' = "done"
    /\ UNCHANGED <<args, infile, outfile, outDisk, header, rows, keep, i, wi,
                   consumed, cleanVars>>

----------------------------------------------------------------------------
(* Specifications *)

Init == InitFilter /\ CleanIdle

Next ==
    \/ OpenIn
    \/ OpenOut
    \/ ReadHeader
    \/ ReadHeaderEmpty
    \/ WriteHeader
    \/ ReadRows
    \/ ScanRun
    \/ ScanDrop
    \/ ScanEnd
    \/ WriteKept
    \/ StreamRow
    \/ ExitWith
    \/ RaiseIO
    \/ PrintOk
    \/ ExceptNotFound
    \/ ExceptOther

Spec == Init /\ [][Next]_vars

NextClean ==
    \/ SubBold /\ UNCHANGED filterVars
    \/ SubItalic /\ UNCHANGED filterVars
    \/ SubUnderline /\ UNCHANGED filterVars
    \/ RemoveTags /\ UNCHANGED filterVars
    \/ Normalize /\ UNCHANGED filterVars
    \/ ReturnClean /\ UNCHANGED filterVars

InitCleanOnly == FilterIdle /\ InitClean

SpecClean == InitCleanOnly /\ [][NextClean]_vars

----------------------------------------------------------------------------
(* Vocabulary of the properties *)

\* a non-empty string of decimal digits
AllDigits(s) ==
    /\ s # <<>>
    /\ \A k \in DOMAIN s : s[k] \in {"0", "1", "2", "3", "4", "5", "6", "7", "8", "9"}

HasKey(row) == Len(row) > 51

\* the cells of row p of rs
RowAt(rs, p) == Cells(At(rs, p))

DigitKeyAt(rs, p) == HasKey(RowAt(rs, p)) /\ AllDigits(At(RowAt(rs, p), 51))

SameKeyAt(rs, p, q) ==
    /\ HasKey(RowAt(rs, p))
    /\ HasKey(RowAt(rs, q))
    /\ At(RowAt(rs, p), 51) = At(RowAt(rs, q), 51)

\* rows a..b-1 of rs are a maximal run of one all-digit key
IsMaxRun(rs, a, b) ==
    /\ 0 <= a /\ a < b /\ b <= Len(rs)
    /\ DigitKeyAt(rs, a)
    /\ a = 0 \/ ~SameKeyAt(rs, a, a - 1)
    /\ b = Len(rs) \/ ~SameKeyAt(rs, a, b)
    /\ \A k \in a..(b - 1) : SameKeyAt(rs, a, k)

\* the starts of the maximal runs of rs that have at least n rows
LongRunStarts(rs, n) ==
    { a \in 0..(Len(rs) - 1) :
        \E b \in (a + 1)..Len(rs) : IsMaxRun(rs, a, b) /\ b - a >= n }

Kept == { At(keep, k) : k \in 0..(Len(keep) - 1) }

\* the sampling pass of task_data is over (or the call ended before it began)
PostScan ==
    /\ variant = "task_data"
    /\ pc \in {"write_rows", "print_ok", "except_other", "done"}

Succeeded == msgs = <<"success">>

\* the data rows the reader yielded
DataRead == IF consumed = <<>> THEN <<>> ELSE Tail(consumed)

\* the positions of cols that are in range for row
InRange(row, cols) == { k \in DOMAIN cols : 0 <= cols[k] /\ cols[k] < Len(row) }

\* the rank of position k among the in-range positions
Rank(row, cols, k) == Cardinality({ m \in InRange(row, cols) : m <= k })

\* out lists, in the order of cols, the cells of row at the in-range indices
IsProjection(out, row, cols) ==
    /\ Len(out) = Cardinality(InRange(row, cols))
    /\ \A k \in InRange(row, cols) : out[Rank(row, cols, k)] = At(row, cols[k])

\* the same, each cell cleaned
IsCleanProjection(out, row, cols) ==
    /\ Len(out) = Cardinality(InRange(row, cols))
    /\ \A k \in InRange(row, cols) :
         out[Rank(row, cols, k)] = CleanText(At(row, cols[k]))

\* a substring "<", one or more characters other than ">", ">"
HasTag(t) ==
    \E p \in DOMAIN t : \E q \in DOMAIN t :
        /\ p + 1 < q
        /\ t[p] = "<"
        /\ t[q] = ">"
        /\ \A k \in (p + 1)..(q - 1) : t[k] # ">"

----------------------------------------------------------------------------
(* Properties *)

\* C1: once the sampling pass of task_data is over, of every maximal run of rows
\* with one all-digit key exactly the 1st and 4th rows are kept when the run has
\* 5 or more rows, and none when it has fewer; a successful call writes two data
\* rows per run of 5 or more rows and nothing else.
C1_RunSampling ==
    PostScan =>
      /\ \A a \in 0..(Len(rows) - 1) : \A b \in (a + 1)..Len(rows) :
           IsMaxRun(rows, a, b) =>
             Kept \cap (a..(b - 1)) = (IF b - a >= 5 THEN {a, a + 3} ELSE {})
      /\ Succeeded => Len(outDisk) = 1 + 2 * Cardinality(LongRunStarts(rows, 5))

\* a run of 6 rows followed by a run of 1 row: rows 0 and 3 kept, and written
C1_Witness ==
    /\ PostScan
    /\ Succeeded
    /\ Len(rows) = 7
    /\ IsMaxRun(rows, 0, 6)
    /\ IsMaxRun(rows, 6, 7)
    /\ keep = <<0, 3>>
    /\ Len(outDisk) = 3

\* C2: a step of the sampling pass that passes over a row whose key is empty,
\* absent or not all digits passes over that row alone and keeps nothing; after
\* the pass no such row is kept, and only kept rows are written.
C2_NonDigitDropped ==
    [][ /\ (pc = "scan" /\ i' > i) =>
             \A p \in i..(i' - 1) :
                 ~DigitKeyAt(rows, p) => (i' = i + 1 /\ keep' = keep)
        /\ PostScan' =>
             /\ \A p \in 0..(Len(rows') - 1) : ~DigitKeyAt(rows', p) => p \notin Kept'
             /\ pc' = "write_rows" => Len(outDisk') = 1 + wi' /\ wi' <= Len(keep')
      ]_vars

\* five adjacent rows with one non-digit key after a kept run: all five dropped
C2_Witness ==
    /\ PostScan
    /\ Succeeded
    /\ Len(rows) = 10
    /\ IsMaxRun(rows, 0, 5)
    /\ \A p \in 5..9 : HasKey(RowAt(rows, p)) /\ At(RowAt(rows, p), 51) = <<"3", "x">>
    /\ keep = <<0, 3>>

\* C3: the first row of the output is the projection of the first row of the
\* input, a successful call has written it, and the rows task_data keeps are
\* rows of runs of 5 or more data rows, the header not counted.
C3_HeaderFirst ==
    /\ (outfile # "unopened" /\ Len(outDisk) > 0) =>
          outDisk[1] = Project(RowAt(consumed, 0), columns)
    /\ Succeeded => Len(outDisk) >= 1 /\ Len(consumed) >= 1
    /\ PostScan =>
          /\ Len(rows) = Len(DataRead)
          /\ \A p \in Kept :
               \E a \in 0..p : \E b \in (p + 1)..Len(DataRead) :
                   IsMaxRun(DataRead, a, b) /\ b - a >= 5

\* a header with the key of the four data rows that follow it: the run stays
\* at four rows, nothing is kept, the output is the projected header alone
C3_Witness ==
    /\ PostScan
    /\ Succeeded
    /\ Len(consumed) = 5
    /\ \A p \in 0..3 : SameKeyAt(consumed, p, p + 1)
    /\ DigitKeyAt(consumed, 0)
    /\ keep = <<>>
    /\ Len(outDisk) = 1
    /\ Len(outDisk[1]) > 0

\* C4: every row written is the list, in the order of `columns`, of the cells
\* of its input row at the indices in range for that row (cleaned, for a data
\* row); nothing is padded.
C4_Projection ==
    /\ (outfile # "unopened" /\ Len(outDisk) > 0) =>
          IsProjection(outDisk[1], RowAt(consumed, 0), columns)
    /\ (variant = "questionnaire" /\ outfile # "unopened") =>
          \A k \in 2..Len(outDisk) :
              IsCleanProjection(outDisk[k], RowAt(consumed, k - 1), columns)
    /\ (PostScan /\ outfile # "unopened") =>
          \A k \in 2..Len(outDisk) :
              IsCleanProjection(outDisk[k], RowAt(rows, At(keep, k - 2)), columns)

\* a duplicated index, and a short data row projected shorter than the header
C4_Witness ==
    /\ variant = "questionnaire"
    /\ Succeeded
    /\ columns = <<51, 0, 51>>
    /\ Len(outDisk) = 3
    /\ Len(RowAt(consumed, 0)) = 52
    /\ Len(RowAt(consumed, 1)) = 2
    /\ outDisk[1][1] = outDisk[1][3]
    /\ Len(outDisk[2]) = 1
    /\ Len(outDisk[3]) = 3

\* C5: when the input path does not exist, no step of the call opens, creates
\* or changes the output file, the call ends in the handler of
\* FileNotFoundError, and what it printed is the not-found message alone.
C5_MissingInput ==
    [][ inFile = "missing" =>
          /\ outDisk' = outDisk
          /\ outfile' = "unopened"
          /\ pc' \in {"except_fnf", "done"}
          /\ pc' = "done" => msgs' = <<"input_not_found">>
      ]_vars

\* the call has returned, a pre-existing output file kept its contents
C5_Witness ==
    /\ inFile = "missing"
    /\ pc = "done"
    /\ outDisk = OldContent
    /\ msgs = <<"input_not_found">>

\* C6 (as claimed): when the input file has no row, no step of the call changes
\* the output file, and the call prints the empty-file message alone.
C6_EmptyInputLeavesOutput ==
    [][ inFile = "empty" =>
          /\ outDisk' = outDisk
          /\ pc' = "done" => msgs' = <<"empty">>
      ]_vars

\* C7: when the call is past its with block (in a handler, printing, or
\* returned), no file handle is open.
C7_HandlesClosed ==
    pc \in {"print_ok", "except_fnf", "except_other", "done"} =>
        infile # "open" /\ outfile # "open"

\* an exception while the kept rows are written: both handles closed
C7_Witness ==
    /\ pc = "done"
    /\ msgs = <<"error">>
    /\ infile = "closed"
    /\ outfile = "closed"
    /\ Len(outDisk) = 2
    /\ Len(keep) = 2

\* C8: the positions task_data keeps are strictly increasing, and the data rows
\* written are the rows at those positions, in that order, one each.
C8_OrderPreserved ==
    variant = "task_data" =>
      /\ \A k \in 1..(Len(keep) - 1) : keep[k] < keep[k + 1]
      /\ pc = "write_rows" => Len(outDisk) = 1 + wi
      /\ (PostScan /\ outfile # "unopened") =>
           /\ Len(outDisk) <= 1 + Len(keep)
           /\ \A k \in 2..Len(outDisk) :
                outDisk[k] = CleanRow(Project(RowAt(rows, At(keep, k - 2)), columns))

\* two runs of five rows: four rows kept, and written in input order
C8_Witness ==
    /\ variant = "task_data"
    /\ Succeeded
    /\ keep = <<0, 3, 5, 8>>
    /\ Len(outDisk) = 5
    /\ outDisk[2] # outDisk[4]

\* C9 (as claimed): the text _clean_text returns holds no tag.
C9_NoTagInOutput == cpc = "done" => ~HasTag(text)

\* C10 (as claimed): the call prints the input-not-found message only when the
\* input file is missing.
C10_NotFoundOnlyForInput ==
    \A k \in DOMAIN msgs : msgs[k] = "input_not_found" => inFile = "missing"

====
